---- MODULE Spec2Model ----
(***************************************************************************)
(* Model of nativeshell's Linux PlatformKeyboardMap                        *)
(* (src/nativeshell/src/shell/platform/linux/keyboard_map.rs).             *)
(*                                                                         *)
(* Option<T> is modelled as a sequence of length 0 (None) or 1 (Some(x)).  *)
(* A function that can panic (Option::unwrap on None) returns a record     *)
(* [panic |-> BOOLEAN, val |-> ...]; a panic unwinds out of the public     *)
(* entry point and leaves the object's fields as they were.                *)
(*                                                                         *)
(* The live keymap (gdk::Keymap) is the environment.  It answers           *)
(* entries_for_keyval(code) with the (keycode, group, level) keys of the   *)
(* configured groups, keycode being the platform code asked for, as the    *)
(* callers in the source take it to.  The generated Key Table is not part  *)
(* of the source file; its entries carry the four fields the source reads. *)
(* Code points and logical key ids are kept below 2^31.                    *)
(***************************************************************************)
EXTENDS Integers, Sequences, FiniteSets, TLC

\* ------------------------------------------------------------------ bounds
\* Largest keyboard group the OS reports in key events / holds in the keymap.
MaxGroup == 2
\* Largest fallback code point tried in the fallback-path specification.
MaxCode == 300

\* ----------------------------------------------------------------- Option
None == <<>>
Some(x) == <<x>>

\* --------------------------------------------------------------- variables
VARIABLES
    key_map,         \* the generated Key Table returned by get_key_map()
    live_keymap,     \* Option<Keymap>: what Display::default() and Keymap::for_display() yield
    current_layout,  \* Option<KeyboardMap>, the memoized build
    current_group,   \* last group observed in a key event
    delegate_alive,  \* TRUE iff self.delegate.upgrade() is Some
    result,          \* outcome of the most recent get_current_map() call
    queried,         \* TRUE iff that call queried the live keymap service
    notified,        \* keyboard_map_did_change() calls made by the most recent on_key_event
    group_changed,   \* a group change was observed since the last get_current_map() call
    stale            \* the service changed since current_layout was filled

vars == <<key_map, live_keymap, current_layout, current_group,
          delegate_alive, result, queried, notified, group_changed, stale>>

Groups == 0..MaxGroup

\* ------------------------------------------------- live keymap service (gdk)
\* A Keymap holds the layouts of the configured groups, group g at index g + 1;
\* a group past the last configured one has no entries.  Layouts:
\*   us      US QWERTY
\*   sk      Slovak: accented characters on the unshifted digit row, and the
\*           quirk the source mentions (Enter yields 'a', Left Control 'A')
\*   ru      Cyrillic letters, ASCII digits
\*   dl      US letters, but the first digit-row key yields a lowercase letter
\*   noshift US at level 0, no level-1 entries
Layouts == {"us", "sk", "ru", "dl", "noshift"}
\* The two partial layouts are tried as the first group only.
LayoutsOf(index) == IF index = 1 THEN Layouts ELSE {"us", "sk", "ru"}

DigitRow == <<49, 50, 51, 52, 53, 54, 55, 56, 57, 48>>
ShiftedDigitRow == <<33, 64, 35, 36, 37, 94, 38, 42, 40, 41>>
SkDigitRow == <<43, 318, 353, 269, 357, 382, 253, 225, 237, 233>>
TopRow == <<113, 119, 101, 114, 116, 121, 117, 105, 111, 112>>
HomeRow == <<97, 115, 100, 102, 103, 104, 106, 107, 108>>
BottomRow == <<122, 120, 99, 118, 98, 110, 109>>

\* The letter an unshifted US keyboard produces for a letter-row keycode.
UsLetter(code) ==
    CASE code \in 24..33 -> TopRow[code - 23]
      [] code \in 38..46 -> HomeRow[code - 37]
      [] code \in 52..58 -> BottomRow[code - 51]

IsLetterCode(code) == code \in (24..33) \cup (38..46) \cup (52..58)

\* Keymap::lookup_key(key).to_unicode() on a US layout.
UsChar(code, level) ==
    CASE code \in 10..19 ->
            Some(IF level = 0 THEN DigitRow[code - 9] ELSE ShiftedDigitRow[code - 9])
      [] IsLetterCode(code) -> Some(UsLetter(code) - 32 * level)
      [] code = 49 -> Some(IF level = 0 THEN 96 ELSE 126)
      [] code = 23 -> Some(9)
      [] code = 36 -> Some(13)
      [] OTHER -> None

\* Keymap::lookup_key(key).to_unicode() for a key of a group holding `layout`.
LayoutChar(layout, code, level) ==
    CASE layout = "sk" /\ code \in 10..19 ->
            Some(IF level = 0 THEN SkDigitRow[code - 9] ELSE DigitRow[code - 9])
      [] layout = "sk" /\ code = 36 -> Some(97)
      [] layout = "sk" /\ code = 37 -> Some(65)
      [] layout = "ru" /\ IsLetterCode(code) ->
            Some((IF level = 0 THEN 1072 ELSE 1040) + (UsLetter(code) - 97))
      [] layout = "dl" /\ code = 10 /\ level = 0 -> Some(113)
      [] OTHER -> UsChar(code, level)

\* Keymap::entries_for_keyval(code): the KeymapKeys the service reports
\* for a code, in group-major order.
GroupEntries(km, code, g) ==
    IF g + 1 > Len(km) THEN <<>>
    ELSE IF km[g + 1] = "noshift"
         THEN <<[keycode |-> code, group |-> g, level |-> 0]>>
         ELSE <<[keycode |-> code, group |-> g, level |-> 0],
                [keycode |-> code, group |-> g, level |-> 1]>>

RECURSIVE EntriesFrom(_, _, _)
EntriesFrom(km, code, g) ==
    IF g > MaxGroup THEN <<>>
    ELSE GroupEntries(km, code, g) \o EntriesFrom(km, code, g + 1)

entries_for_keyval(km, code) == EntriesFrom(km, code, 0)

\* keymap.lookup_key(key)?.to_unicode()?
keymap_lookup(km, key) == LayoutChar(km[key.group + 1], key.keycode, key.level)

\* ------------------------------------------------------------ free functions
lookup_key(km, key) ==
    IF key.keycode = 36 \/ key.keycode = 37 THEN None
    ELSE LET res == keymap_lookup(km, key)
         IN  IF res = None THEN None
             ELSE IF res[1] < 32 THEN None
             ELSE Some(res[1])

get_key(km, code, group, level) ==
    LET Matches(k) == k.group = group /\ k.level = level
        found == SelectSeq(entries_for_keyval(km, code), Matches)
    IN  IF found = <<>> THEN None ELSE Some(Head(found))

\* --------------------------------------------------------------- Key Table
\* get_key_map(): the generated table (generated_keyboard_map.rs).  An entry
\* has the fields the source reads: platform, physical, logical, fallback.
KeyTable ==
    << [platform |-> 24, physical |-> 458772, logical |-> None, fallback |-> Some(113)],
       [platform |-> 10, physical |-> 458782, logical |-> None, fallback |-> Some(49)],
       [platform |-> 36, physical |-> 458792, logical |-> Some(16777229), fallback |-> None],
       [platform |-> 23, physical |-> 458795, logical |-> Some(16777225), fallback |-> None],
       [platform |-> 49, physical |-> 458805, logical |-> None, fallback |-> Some(96)] >>

\* One-entry tables whose fallback ranges over every code point up to MaxCode
\* (and the absent fallback), for the fallback build path.
ProbeTables ==
    { << [platform |-> 38, physical |-> 458756, logical |-> None, fallback |-> f] >> :
        f \in {None} \cup { Some(c) : c \in 0..MaxCode } }

\* ------------------------------------------------------ PlatformKeyboardMap
\* The half-open Rust range a..b as a sequence.
Range(a, b) == [i \in 1..(b - a) |-> a + i - 1]

\* "true" / "false", or "panic" when get_key(..).unwrap() meets None.
is_ascii(km, group, code) ==
    LET entry == get_key(km, code, group, 0)
    IN  IF entry = None THEN "panic"
        ELSE LET key == lookup_key(km, entry[1])
             IN  IF key # None /\ key[1] < 256
                 THEN LET char == key[1] % 256
                      IN  IF (char >= 97 /\ char <= 122) \/ (char >= 48 /\ char <= 57)
                          THEN "true" ELSE "false"
                 ELSE "false"

\* The keys is_ascii_capable tests, in the order it tests them.
ScannedKeys(including_numbers) ==
    Range(24, 33) \o Range(38, 46) \o Range(52, 58)
        \o (IF including_numbers THEN Range(10, 19) ELSE <<>>)

RECURSIVE AllAscii(_, _, _)
AllAscii(km, group, keys) ==
    IF keys = <<>> THEN "true"
    ELSE LET r == is_ascii(km, group, Head(keys))
         IN  IF r = "true" THEN AllAscii(km, group, Tail(keys)) ELSE r

is_ascii_capable(km, including_numbers, group) ==
    AllAscii(km, group, ScannedKeys(including_numbers))

\* The (including_numbers, group) pairs get_group tries, in order.
GroupCandidates(current) ==
    << [numbers |-> FALSE, group |-> current] >>
        \o [i \in 1..3 |-> [numbers |-> TRUE, group |-> i - 1]]
        \o [i \in 1..3 |-> [numbers |-> FALSE, group |-> i - 1]]

RECURSIVE FirstCapable(_, _, _)
FirstCapable(km, current, cands) ==
    IF cands = <<>> THEN [panic |-> FALSE, val |-> current]
    ELSE LET c == Head(cands)
             r == is_ascii_capable(km, c.numbers, c.group)
         IN  IF r = "panic" THEN [panic |-> TRUE, val |-> current]
             ELSE IF r = "true" THEN [panic |-> FALSE, val |-> c.group]
             ELSE FirstCapable(km, current, Tail(cands))

get_group(km, current) == FirstCapable(km, current, GroupCandidates(current))

NoKey ==
    [platform |-> 0, physical |-> 0, logical |-> None, logical_shift |-> None,
     logical_alt |-> None, logical_alt_shift |-> None, logical_meta |-> None]

\* Variant of key_from_entry: a failed lookup takes the entry's fallback code.
key_from_entry_fallback(entry, km, group) ==
    LET k0 == get_key(km, entry.platform, group, 0)
    IN  IF k0 = None THEN [panic |-> TRUE, val |-> NoKey]
        ELSE LET key == lookup_key(km, k0[1])
                 k1 == get_key(km, entry.platform, group, 1)
             IN  IF key # None /\ k1 = None THEN [panic |-> TRUE, val |-> NoKey]
                 ELSE [panic |-> FALSE,
                       val |-> [platform |-> entry.platform,
                                physical |-> entry.physical,
                                logical |-> IF key # None THEN key ELSE entry.fallback,
                                logical_shift |->
                                    IF key # None THEN lookup_key(km, k1[1]) ELSE None,
                                logical_alt |-> None,
                                logical_alt_shift |-> None,
                                logical_meta |-> None]]

key_from_entry(entry, km, group) ==
    LET k0 == get_key(km, entry.platform, group, 0)
    IN  IF k0 = None THEN [panic |-> TRUE, val |-> NoKey]
        ELSE LET key == lookup_key(km, k0[1])
                 k1 == get_key(km, entry.platform, group, 1)
             IN  IF key # None /\ k1 = None THEN [panic |-> TRUE, val |-> NoKey]
                 ELSE [panic |-> FALSE,
                       val |-> [platform |-> entry.platform,
                                physical |-> entry.physical,
                                logical |-> IF key # None THEN key ELSE entry.logical,
                                logical_shift |->
                                    IF key # None THEN lookup_key(km, k1[1]) ELSE None,
                                logical_alt |-> None,
                                logical_alt_shift |-> None,
                                logical_meta |-> None]]

\* Variant of _shift_key: the a-z arm is missing.
_shift_key_no_letters(key) ==
    CASE key = 96 -> 126
      [] key = 49 -> 33
      [] key = 50 -> 64
      [] key = 51 -> 35
      [] key = 52 -> 36
      [] key = 53 -> 37
      [] key = 54 -> 94
      [] key = 55 -> 38
      [] key = 56 -> 42
      [] key = 57 -> 40
      [] key = 48 -> 41
      [] key = 45 -> 95
      [] key = 61 -> 43
      [] key = 91 -> 123
      [] key = 93 -> 125
      [] key = 92 -> 124
      [] key = 59 -> 58
      [] key = 39 -> 34
      [] key = 44 -> 60
      [] key = 46 -> 62
      [] key = 47 -> 63
      [] OTHER -> key

\* According to US layout
_shift_key(key) ==
    CASE key = 96 -> 126
      [] key = 49 -> 33
      [] key = 50 -> 64
      [] key = 51 -> 35
      [] key = 52 -> 36
      [] key = 53 -> 37
      [] key = 54 -> 94
      [] key = 55 -> 38
      [] key = 56 -> 42
      [] key = 57 -> 40
      [] key = 48 -> 41
      [] key = 45 -> 95
      [] key = 61 -> 43
      [] key = 91 -> 123
      [] key = 93 -> 125
      [] key = 92 -> 124
      [] key = 59 -> 58
      [] key = 39 -> 34
      [] key = 44 -> 60
      [] key = 46 -> 62
      [] key = 47 -> 63
      [] OTHER -> IF key >= 97 /\ key <= 122
                  THEN (key + (65 - 97)) % 256
                  ELSE key

shift_key(key) ==
    IF key < 256 THEN Some(_shift_key(key % 256) % 256) ELSE None

\* Variant of fallback_key_from_entry: platform and physical exchanged.
fallback_key_from_entry_swapped(entry) ==
    [platform |-> entry.physical,
     physical |-> entry.platform,
     logical |-> entry.fallback,
     logical_shift |-> IF entry.fallback = None THEN None ELSE shift_key(entry.fallback[1]),
     logical_alt |-> None,
     logical_alt_shift |-> None,
     logical_meta |-> None]

fallback_key_from_entry(entry) ==
    [platform |-> entry.platform,
     physical |-> entry.physical,
     logical |-> entry.fallback,
     logical_shift |-> IF entry.fallback = None THEN None ELSE shift_key(entry.fallback[1]),
     logical_alt |-> None,
     logical_alt_shift |-> None,
     logical_meta |-> None]

fallback_map(keys) ==
    [keys |-> [i \in 1..Len(keys) |-> fallback_key_from_entry(keys[i])]]

\* Outcome of a get_current_map() call: no call yet, a panic, or a KeyboardMap.
NoMap == [keys |-> <<>>]
NoResult == [kind |-> "none", map |-> NoMap]
Panicked == [kind |-> "panic", map |-> NoMap]
Returned(m) == [kind |-> "map", map |-> m]

create_keyboard_layout(table, live, current) ==
    IF live # None
    THEN LET keymap == live[1]
             group == get_group(keymap, current)
         IN  IF group.panic THEN Panicked
             ELSE LET keys == [i \in 1..Len(table) |->
                                  key_from_entry(table[i], keymap, group.val)]
                  IN  IF \E i \in 1..Len(table) : keys[i].panic THEN Panicked
                      ELSE Returned([keys |-> [i \in 1..Len(table) |-> keys[i].val]])
    ELSE Returned(fallback_map(table))

\* Variant of get_current_map: builds on every call, never reads the cache.
get_current_map_always_builds ==
    /\ UNCHANGED <<key_map, live_keymap, current_group, delegate_alive, notified>>
    /\ group_changed' = FALSE
    /\ \E built \in {create_keyboard_layout(key_map, live_keymap, current_group)} :
          /\ result' = built
          /\ queried' = TRUE
          /\ stale' = FALSE
          /\ current_layout' =
                 IF built.kind = "map" THEN Some(built.map) ELSE None

\* pub fn get_current_map(&self) -> KeyboardMap
get_current_map ==
    /\ UNCHANGED <<key_map, live_keymap, current_group, delegate_alive, notified>>
    /\ group_changed' = FALSE
    /\ IF current_layout # None
       THEN /\ result' = Returned(current_layout[1])
            /\ queried' = FALSE
            /\ UNCHANGED <<current_layout, stale>>
       ELSE \E built \in {create_keyboard_layout(key_map, live_keymap, current_group)} :
                /\ result' = built
                /\ queried' = TRUE
                /\ stale' = FALSE
                /\ current_layout' =
                       IF built.kind = "map" THEN Some(built.map) ELSE None

\* Variant of on_layout_changed: notifies but keeps the memoized map.
on_layout_changed_keeps_cache ==
    /\ UNCHANGED current_layout
    /\ notified' = IF delegate_alive THEN 1 ELSE 0

on_layout_changed ==
    /\ current_layout' = None
    /\ notified' = IF delegate_alive THEN 1 ELSE 0

\* An event of the OS stream: a key event carrying its group, or another event.
Events == [is_key : BOOLEAN, group : Groups]

\* Variant of on_key_event: records the new group, forgets on_layout_changed().
on_key_event_no_invalidate(event) ==
    /\ IF event.is_key /\ event.group # current_group
       THEN /\ current_group' = event.group
            /\ group_changed' = TRUE
            /\ notified' = 0
            /\ UNCHANGED <<current_layout, stale>>
       ELSE /\ notified' = 0
            /\ UNCHANGED <<current_group, current_layout, group_changed, stale>>
    /\ UNCHANGED <<key_map, live_keymap, delegate_alive, result, queried>>

\* pub(crate) fn on_key_event(&self, event: &Event)
on_key_event(event) ==
    /\ IF event.is_key /\ event.group # current_group
       THEN /\ current_group' = event.group
            /\ on_layout_changed
            /\ group_changed' = TRUE
            /\ stale' = FALSE
       ELSE /\ notified' = 0
            /\ UNCHANGED <<current_group, current_layout, group_changed, stale>>
    /\ UNCHANGED <<key_map, live_keymap, delegate_alive, result, queried>>

OnKeyEvent == \E event \in Events : on_key_event(event)

\* ------------------------------------------------------------- environment
\* The owner of the delegate releases it: the Weak reference no longer upgrades.
DropDelegate ==
    /\ delegate_alive
    /\ delegate_alive' = FALSE
    /\ UNCHANGED <<key_map, live_keymap, current_layout, current_group,
                   result, queried, notified, group_changed, stale>>

Keymaps ==
    { km \in UNION { [1..n -> Layouts] : n \in 1..(MaxGroup + 1) } :
        \A g \in 1..Len(km) : km[g] \in LayoutsOf(g) }

\* The display connection (and with it the keymap) goes away.
DisplayLost ==
    /\ live_keymap # None
    /\ live_keymap' = None
    /\ stale' = (current_layout # None)
    /\ UNCHANGED <<key_map, current_layout, current_group, delegate_alive,
                   result, queried, notified, group_changed>>

\* A display connection appears, with some keymap.
DisplayFound ==
    /\ live_keymap = None
    /\ \E km \in Keymaps : live_keymap' = Some(km)
    /\ stale' = (current_layout # None)
    /\ UNCHANGED <<key_map, current_layout, current_group, delegate_alive,
                   result, queried, notified, group_changed>>

\* The user reconfigures the keymap: replaces the layout of a group, adds a
\* group after the last one, or removes the last group.
LayoutChange ==
    /\ live_keymap # None
    /\ LET keymap == live_keymap[1]
       IN  \/ \E g \in 1..Len(keymap) : \E l \in LayoutsOf(g) :
                /\ l # keymap[g]
                /\ live_keymap' = Some([keymap EXCEPT ![g] = l])
           \/ \E l \in LayoutsOf(Len(keymap) + 1) :
                /\ Len(keymap) <= MaxGroup
                /\ live_keymap' = Some(Append(keymap, l))
           \/ /\ Len(keymap) > 1
              /\ live_keymap' = Some(SubSeq(keymap, 1, Len(keymap) - 1))
    /\ stale' = (current_layout # None)
    /\ UNCHANGED <<key_map, current_layout, current_group, delegate_alive,
                   result, queried, notified, group_changed>>

Init ==
    /\ key_map = KeyTable
    /\ live_keymap \in {None} \cup { Some(km) : km \in Keymaps }
    /\ current_layout = None
    /\ current_group = 0
    /\ delegate_alive = TRUE
    /\ result = NoResult
    /\ queried = FALSE
    /\ notified = 0
    /\ group_changed = FALSE
    /\ stale = FALSE

Next ==
    \/ get_current_map
    \/ OnKeyEvent
    \/ DropDelegate
    \/ DisplayLost
    \/ DisplayFound
    \/ LayoutChange

Spec == Init /\ [][Next]_vars

\* The fallback build path alone: no display, and a Key Table drawn from
\* ProbeTables so that every fallback code point is built.
InitFallback ==
    /\ key_map \in ProbeTables
    /\ live_keymap = None
    /\ current_layout = None
    /\ current_group = 0
    /\ delegate_alive = TRUE
    /\ result = NoResult
    /\ queried = FALSE
    /\ notified = 0
    /\ group_changed = FALSE
    /\ stale = FALSE

NextFallback ==
    \/ get_current_map
    \/ OnKeyEvent
    \/ DropDelegate

SpecFallback == InitFallback /\ [][NextFallback]_vars

\* ================================================================== claims
\* The Key Lookup of the specification: the entry at (code, group, level)
\* resolved by lookup_key, None when the keymap has no such entry.
Lookup(km, code, group, level) ==
    LET k == get_key(km, code, group, level)
    IN  IF k = None THEN None ELSE lookup_key(km, k[1])

\* A get_current_map() step that runs the build with the live keymap reachable.
LiveBuildStep == current_layout = None /\ live_keymap # None /\ get_current_map

\* A get_current_map() step that runs the build with no display.
FallbackBuildStep == current_layout = None /\ live_keymap = None /\ get_current_map

\* C1: get_current_map() never fails hard: every call completes and returns
\* a map, whatever entries the live keymap has.
C1_NeverFailsHard == result.kind # "panic"

\* C2: group selection always returns, with a value in {0, 1, 2} \cup {current},
\* for every live keymap state.
C2_GroupSelectionReturns ==
    live_keymap # None =>
        LET selected == get_group(live_keymap[1], current_group)
        IN  /\ ~selected.panic
            /\ selected.val \in {0, 1, 2} \cup {current_group}

\* An on_key_event step that observes a group other than current_group.
GroupChangeStep(event) ==
    on_key_event(event) /\ event.is_key /\ event.group # current_group

\* The first get_current_map() after a group change runs the build, with
\* group selection starting from the new current group.
FirstCallAfterGroupChange ==
    (group_changed /\ get_current_map) =>
        /\ queried'
        /\ result' = create_keyboard_layout(key_map, live_keymap, current_group)

\* C3 (as claimed): a key event whose group differs from current_group sets
\* current_group, clears the cached map and notifies the delegate exactly once;
\* the next get_current_map() runs the build from the new current group.
C3_NotifiedExactlyOnce ==
    [][ /\ \A event \in Events :
              GroupChangeStep(event) =>
                  /\ current_group' = event.group
                  /\ current_layout' = None
                  /\ notified' = 1
        /\ FirstCallAfterGroupChange ]_vars

\* C3 (amended): as above, but the delegate is notified exactly once when it
\* is still alive and not at all when it has been released.
C3_NotifiedOnceIfAlive ==
    [][ /\ \A event \in Events :
              GroupChangeStep(event) =>
                  /\ current_group' = event.group
                  /\ current_layout' = None
                  /\ notified' = (IF delegate_alive THEN 1 ELSE 0)
        /\ FirstCallAfterGroupChange ]_vars

\* Group 2 was observed with the delegate alive, and a later call built a map.
C3_Witness ==
    /\ current_group = 2
    /\ notified = 1
    /\ result.kind = "map"
    /\ queried
    /\ ~group_changed

\* C4: two get_current_map() calls with no group change observed in between
\* return equal maps and the second queries nothing; the build runs only when
\* current_layout is empty.
C4_CacheCoherence ==
    [][ get_current_map =>
            /\ (result.kind = "map" /\ ~group_changed /\ result'.kind = "map") =>
                   (result' = result /\ ~queried')
            /\ queried' => current_layout = None ]_vars

\* A call returned the memoized map although the service had changed.
C4_Witness ==
    /\ result.kind = "map"
    /\ ~queried
    /\ stale

\* The group satisfies the ASCII-capable predicate.
Satisfies(km, numbers, group) == is_ascii_capable(km, numbers, group) = "true"

FirstSatisfying(km, numbers) ==
    CHOOSE g \in 0..2 :
        /\ Satisfies(km, numbers, g)
        /\ \A h \in 0..(g - 1) : ~Satisfies(km, numbers, h)

PriorityOrder(km, current) ==
    IF Satisfies(km, FALSE, current) THEN current
    ELSE IF \E g \in 0..2 : Satisfies(km, TRUE, g) THEN FirstSatisfying(km, TRUE)
    ELSE IF \E g \in 0..2 : Satisfies(km, FALSE, g) THEN FirstSatisfying(km, FALSE)
    ELSE current

\* C5: get_group follows the priority order: current if letters-only capable,
\* else the first of 0, 1, 2 capable with numbers, else the first of 0, 1, 2
\* capable letters-only, else current.
C5_PriorityOrder ==
    live_keymap # None =>
        LET selected == get_group(live_keymap[1], current_group)
        IN  /\ ~selected.panic
            /\ selected.val = PriorityOrder(live_keymap[1], current_group)

\* C6: a group satisfies the numbers-inclusive predicate only if each of the
\* 9 digit-row keys resolves, at level 0, to a character in [0-9].
C6_DigitRowIsDigits ==
    live_keymap # None =>
        \A group \in Groups :
            Satisfies(live_keymap[1], TRUE, group) =>
                \A code \in 10..18 :
                    LET key == Lookup(live_keymap[1], code, group, 0)
                    IN  key # None /\ key[1] \in 48..57

\* The keys of a map built on the live path: logical is the level-0 lookup in
\* the selected group, or substitute(entry) when that lookup is None
\* (logical_shift then None); otherwise logical_shift is the level-1 lookup.
LiveKeysUse(substitute(_)) ==
    (LiveBuildStep /\ result'.kind = "map") =>
        LET km == live_keymap[1]
            group == get_group(km, current_group).val
        IN  \A i \in 1..Len(key_map) :
                LET entry == key_map[i]
                    key == result'.map.keys[i]
                    level0 == Lookup(km, entry.platform, group, 0)
                IN  IF level0 = None
                    THEN key.logical = substitute(entry) /\ key.logical_shift = None
                    ELSE /\ key.logical = level0
                         /\ key.logical_shift = Lookup(km, entry.platform, group, 1)

EntryFallback(entry) == entry.fallback
EntryLogical(entry) == entry.logical

C8_OneKeyPerEntry ==
    result.kind = "map" =>
        /\ Len(result.map.keys) = Len(key_map)
        /\ \A i \in 1..Len(key_map) :
              /\ result.map.keys[i].physical = key_map[i].physical
              /\ result.map.keys[i].platform = key_map[i].platform
              /\ result.map.keys[i].logical_alt = None
              /\ result.map.keys[i].logical_alt_shift = None
              /\ result.map.keys[i].logical_meta = None

\* The last call built and memoized a map of the whole table with no display.
C8_Witness ==
    /\ result.kind = "map"
    /\ current_layout = Some(result.map)
    /\ queried
    /\ live_keymap = None
    /\ ~stale
    /\ Len(result.map.keys) = Len(KeyTable)

\* The fixed punctuation and digit pairs of the US layout.
UsShiftPairs ==
    << <<96, 126>>, <<49, 33>>, <<50, 64>>, <<51, 35>>, <<52, 36>>, <<53, 37>>,
       <<54, 94>>, <<55, 38>>, <<56, 42>>, <<57, 40>>, <<48, 41>>, <<45, 95>>,
       <<61, 43>>, <<91, 123>>, <<93, 125>>, <<92, 124>>, <<59, 58>>, <<39, 34>>,
       <<44, 60>>, <<46, 62>>, <<47, 63>> >>

ShiftDeriver(fallback) ==
    IF fallback = None THEN None
    ELSE IF fallback[1] >= 256 THEN None
    ELSE IF \E p \in 1..Len(UsShiftPairs) : UsShiftPairs[p][1] = fallback[1]
    THEN Some(UsShiftPairs[CHOOSE p \in 1..Len(UsShiftPairs) :
                               UsShiftPairs[p][1] = fallback[1]][2])
    ELSE IF fallback[1] \in 97..122 THEN Some(fallback[1] - 32)
    ELSE fallback

ReturnsFreshBuild ==
    result' = create_keyboard_layout(key_map, live_keymap, current_group)

\* C10 (as claimed): the map get_current_map() returns always equals the map
\* a fresh build would produce from current_group and the live service state
\* at the time of the call.
C10_AlwaysFresh == [][ get_current_map => ReturnsFreshBuild ]_vars

\* C10 (amended): it equals that fresh build provided the live service has
\* not changed since the cached map was built; a service change that comes
\* without a group change leaves the cached map in place.
C10_FreshUnlessServiceChanged ==
    [][ (~stale /\ get_current_map) => ReturnsFreshBuild ]_vars

\* After a group change, a call returned the memoized map of an unchanged service.
C10_Witness ==
    /\ result.kind = "map"
    /\ current_layout = Some(result.map)
    /\ ~queried
    /\ ~stale
    /\ current_group # 0

====
